---- MODULE Spec2Model ----
(***************************************************************************)
(* BrightSmile Dental webhook server (src/webhook_server.py).              *)
(*                                                                         *)
(* The dispatcher handle_webhook_request over the in-memory registry       *)
(* `appointments` and the list `available_slots`.  Python strings are      *)
(* sequences of one-character strings, so that lower(), title(), split()   *)
(* and join() are computed character by character as Python computes them. *)
(*                                                                         *)
(* Two specifications:                                                     *)
(*   Spec      requests are served one at a time, each by one run of       *)
(*             handle_webhook_request;                                     *)
(*   SpecRace  two reschedule_appointment requests for one key run in two  *)
(*             threads, one statement of the handler per step.             *)
(***************************************************************************)
EXTENDS Integers, Sequences, FiniteSets, TLC

VARIABLES
    appointments,      \* the registry: patient key -> appointment record
    available_slots,   \* the list of free slots
    pc,                \* Spec: "idle" | "received" | "done"
    req,               \* Spec: the request being served
    resp,              \* Spec: the response of the request being served
    before,            \* Spec: the registry as the request being served found it
    lastStatusAction,  \* Spec: per key, the last confirm/cancel applied to it
    tpc,               \* SpecRace: per thread, the statement it is at
    treq,              \* SpecRace: per thread, its request
    tresp              \* SpecRace: per thread, its response

vars ==
    <<appointments, available_slots, pc, req, resp, before, lastStatusAction,
      tpc, treq, tresp>>

-----------------------------------------------------------------------------
(* Python str operations, on sequences of characters.                      *)

UpperChars ==
    <<"A", "B", "C", "D", "E", "F", "G", "H", "I", "J", "K", "L", "M",
      "N", "O", "P", "Q", "R", "S", "T", "U", "V", "W", "X", "Y", "Z">>

LowerChars ==
    <<"a", "b", "c", "d", "e", "f", "g", "h", "i", "j", "k", "l", "m",
      "n", "o", "p", "q", "r", "s", "t", "u", "v", "w", "x", "y", "z">>

isupper(c) ==
    \E i \in 1..Len(UpperChars) : UpperChars[i] = c

islower(c) ==
    \E i \in 1..Len(LowerChars) : LowerChars[i] = c

isalpha(c) ==
    isupper(c) \/ islower(c)

\* str.isspace for the whitespace characters str.split() separates on
isspace(c) ==
    c \in {" ", "\t", "\n", "\r"}

lower_char(c) ==
    IF isupper(c)
    THEN LowerChars[CHOOSE i \in 1..Len(UpperChars) : UpperChars[i] = c]
    ELSE c

upper_char(c) ==
    IF islower(c)
    THEN UpperChars[CHOOSE i \in 1..Len(LowerChars) : LowerChars[i] = c]
    ELSE c

\* A plausible slip: no case folding at all.
lower_identity(s) ==
    s

\* str.lower()
lower(s) ==
    [i \in 1..Len(s) |-> lower_char(s[i])]

\* str.title(): a letter that follows a non-letter is upper-cased, every
\* other letter lower-cased
title(s) ==
    [i \in 1..Len(s) |->
        IF i = 1 \/ ~isalpha(s[i - 1]) THEN upper_char(s[i]) ELSE lower_char(s[i])]

RECURSIVE split_from(_, _, _, _)
\* the scan of str.split(): `cur` is the token being read, `toks` those read
split_from(s, i, cur, toks) ==
    IF i > Len(s)
    THEN IF cur = <<>> THEN toks ELSE Append(toks, cur)
    ELSE IF isspace(s[i])
         THEN split_from(s, i + 1, <<>>, IF cur = <<>> THEN toks ELSE Append(toks, cur))
         ELSE split_from(s, i + 1, Append(cur, s[i]), toks)

\* str.split() with no argument: the tokens between runs of whitespace
split(s) ==
    split_from(s, 1, <<>>, <<>>)

RECURSIVE join(_, _)
\* sep.join(toks)
join(sep, toks) ==
    IF toks = <<>> THEN <<>>
    ELSE IF Len(toks) = 1 THEN toks[1]
    ELSE toks[1] \o sep \o join(sep, Tail(toks))

-----------------------------------------------------------------------------
(* JSON values of a payload field, as Python sees them.                    *)

Absent ==
    [t |-> "absent", s |-> <<>>, n |-> 0]

JNull ==
    [t |-> "null", s |-> <<>>, n |-> 0]

JStr(s) ==
    [t |-> "string", s |-> s, n |-> 0]

JNum(n) ==
    [t |-> "number", s |-> <<>>, n |-> n]

\* data.get(key, default): the default only when the key is absent
dict_get(v, default) ==
    IF v.t = "absent" THEN default ELSE v

\* Python truth value of a field value
truthy(v) ==
    CASE v.t = "string" -> v.s # <<>>
      [] v.t = "number" -> v.n # 0
      [] OTHER -> FALSE

\* only a str has .lower() and .split()
is_str(v) ==
    v.t = "string"

-----------------------------------------------------------------------------
(* String literals of the source and of the requests, spelled out.         *)

\* Registry keys and record fields of the mock data (lines 21-34)
\* "john smith"
k_john_smith ==
    <<"j", "o", "h", "n", " ", "s", "m", "i", "t", "h">>
\* "jane doe"
k_jane_doe ==
    <<"j", "a", "n", "e", " ", "d", "o", "e">>
\* "2025-07-30"
d_2025_07_30 ==
    <<"2", "0", "2", "5", "-", "0", "7", "-", "3", "0">>
\* "2025-07-29"
d_2025_07_29 ==
    <<"2", "0", "2", "5", "-", "0", "7", "-", "2", "9">>
\* "3:00 PM"
t_3_00_PM ==
    <<"3", ":", "0", "0", " ", "P", "M">>
\* "10:00 AM"
t_10_00_AM ==
    <<"1", "0", ":", "0", "0", " ", "A", "M">>

\* Action tags compared against the case-folded action (lines 91-143)
\* "lookup_appointment"
a_lookup_appointment ==
    <<"l", "o", "o", "k", "u", "p", "_", "a", "p", "p", "o", "i", "n", "t", "m", "e", "n", "t">>
\* "check_availability"
a_check_availability ==
    <<"c", "h", "e", "c", "k", "_", "a", "v", "a", "i", "l", "a", "b", "i", "l", "i", "t", "y">>
\* "confirm_appointment"
a_confirm_appointment ==
    <<"c", "o", "n", "f", "i", "r", "m", "_", "a", "p", "p", "o", "i", "n", "t", "m", "e", "n", "t">>
\* "cancel_appointment"
a_cancel_appointment ==
    <<"c", "a", "n", "c", "e", "l", "_", "a", "p", "p", "o", "i", "n", "t", "m", "e", "n", "t">>
\* "reschedule_appointment"
a_reschedule_appointment ==
    <<"r", "e", "s", "c", "h", "e", "d", "u", "l", "e", "_", "a", "p", "p", "o", "i", "n", "t", "m", "e", "n", "t">>

\* Message texts of the responses (lines 81-169)
\* "Telnyx webhook received successfully"
m_telnyx_received ==
    <<"T", "e", "l", "n", "y", "x", " ", "w", "e", "b", "h", "o", "o", "k", " ", "r", "e", "c", "e", "i", "v", "e", "d", " ", "s", "u", "c", "c", "e", "s", "s", "f", "u", "l", "l", "y">>
\* "Found appointment for "
m_found_for ==
    <<"F", "o", "u", "n", "d", " ", "a", "p", "p", "o", "i", "n", "t", "m", "e", "n", "t", " ", "f", "o", "r", " ">>
\* "No appointment found for "
m_no_appointment_for ==
    <<"N", "o", " ", "a", "p", "p", "o", "i", "n", "t", "m", "e", "n", "t", " ", "f", "o", "u", "n", "d", " ", "f", "o", "r", " ">>
\* "Here are some available times"
m_available_times ==
    <<"H", "e", "r", "e", " ", "a", "r", "e", " ", "s", "o", "m", "e", " ", "a", "v", "a", "i", "l", "a", "b", "l", "e", " ", "t", "i", "m", "e", "s">>
\* "Appointment confirmed for "
m_confirmed_for ==
    <<"A", "p", "p", "o", "i", "n", "t", "m", "e", "n", "t", " ", "c", "o", "n", "f", "i", "r", "m", "e", "d", " ", "f", "o", "r", " ">>
\* "Appointment cancelled for "
m_cancelled_for ==
    <<"A", "p", "p", "o", "i", "n", "t", "m", "e", "n", "t", " ", "c", "a", "n", "c", "e", "l", "l", "e", "d", " ", "f", "o", "r", " ">>
\* "Appointment not found"
m_not_found ==
    <<"A", "p", "p", "o", "i", "n", "t", "m", "e", "n", "t", " ", "n", "o", "t", " ", "f", "o", "u", "n", "d">>
\* "Appointment rescheduled for "
m_rescheduled_for ==
    <<"A", "p", "p", "o", "i", "n", "t", "m", "e", "n", "t", " ", "r", "e", "s", "c", "h", "e", "d", "u", "l", "e", "d", " ", "f", "o", "r", " ">>
\* " to "
m_to ==
    <<" ", "t", "o", " ">>
\* "Could not reschedule appointment"
m_could_not_reschedule ==
    <<"C", "o", "u", "l", "d", " ", "n", "o", "t", " ", "r", "e", "s", "c", "h", "e", "d", "u", "l", "e", " ", "a", "p", "p", "o", "i", "n", "t", "m", "e", "n", "t">>
\* "Unknown action: "
m_unknown_action ==
    <<"U", "n", "k", "n", "o", "w", "n", " ", "a", "c", "t", "i", "o", "n", ":", " ">>
\* "Internal server error"
m_internal_server_error ==
    <<"I", "n", "t", "e", "r", "n", "a", "l", " ", "s", "e", "r", "v", "e", "r", " ", "e", "r", "r", "o", "r">>

\* Request inputs: strings a caller may send
\* "Confirm_Appointment"
in_Confirm_Appointment ==
    <<"C", "o", "n", "f", "i", "r", "m", "_", "A", "p", "p", "o", "i", "n", "t", "m", "e", "n", "t">>
\* "Frobnicate"
in_Frobnicate ==
    <<"F", "r", "o", "b", "n", "i", "c", "a", "t", "e">>
\* "frobnicate"
in_frobnicate ==
    <<"f", "r", "o", "b", "n", "i", "c", "a", "t", "e">>
\* "JOHN SMITH"
in_JOHN_SMITH ==
    <<"J", "O", "H", "N", " ", "S", "M", "I", "T", "H">>
\* "Jane Doe"
in_Jane_Doe ==
    <<"J", "a", "n", "e", " ", "D", "o", "e">>
\* "bob"
in_bob ==
    <<"b", "o", "b">>
\* "2025-08-02 9:00 AM"
in_time_clean ==
    <<"2", "0", "2", "5", "-", "0", "8", "-", "0", "2", " ", "9", ":", "0", "0", " ", "A", "M">>
\* "  2025-08-02 \t9:00   AM "
in_time_messy ==
    <<" ", " ", "2", "0", "2", "5", "-", "0", "8", "-", "0", "2", " ", "\t", "9", ":", "0", "0", " ", " ", " ", "A", "M", " ">>
\* "2025-08-03"
in_time_date_only ==
    <<"2", "0", "2", "5", "-", "0", "8", "-", "0", "3">>
\* " \t"
in_time_blank ==
    <<" ", "\t">>
\* "2025-08-02"
d_2025_08_02 ==
    <<"2", "0", "2", "5", "-", "0", "8", "-", "0", "2">>
\* "2025-08-03"
d_2025_08_03 ==
    <<"2", "0", "2", "5", "-", "0", "8", "-", "0", "3">>
\* "9:00 AM"
t_9_00_AM ==
    <<"9", ":", "0", "0", " ", "A", "M">>
-----------------------------------------------------------------------------
(* The module-level data.                                                  *)

\* appointments, as the module creates it
InitialAppointments ==
    (k_john_smith :>
        [date |-> d_2025_07_30, time |-> t_3_00_PM,
         doctor |-> "Dr. Clark", status |-> "scheduled"])
    @@
    (k_jane_doe :>
        [date |-> d_2025_07_29, time |-> t_10_00_AM,
         doctor |-> "Dr. Martinez", status |-> "scheduled"])

\* available_slots, as the module creates it
InitialSlots ==
    <<"2025-07-29 2:00 PM", "2025-07-30 10:00 AM", "2025-07-30 4:00 PM",
      "2025-07-31 9:00 AM", "2025-07-31 1:00 PM", "2025-08-01 11:00 AM">>

-----------------------------------------------------------------------------
(* Requests.  `body` is what the request body parses to: "malformed" is no *)
(* JSON at all, "falsy" any of null, false, 0, "", [] and {}, "array",     *)
(* "string" and "number" a non-empty value of that JSON type, "object" a   *)
(* non-empty JSON object.  `type` and `event_type` say whether             *)
(* 'type' in data and 'event_type' in data hold: a key of an object, an    *)
(* element of an array, a substring of a string.                           *)

ActionInputs ==
    { Absent, JNum(7), JStr(<<>>), JStr(in_Frobnicate),
      JStr(a_lookup_appointment), JStr(a_check_availability),
      JStr(in_Confirm_Appointment), JStr(a_cancel_appointment),
      JStr(a_reschedule_appointment) }

NameInputs ==
    { Absent, JNull, JStr(in_JOHN_SMITH), JStr(in_Jane_Doe), JStr(in_bob) }

TimeInputs ==
    { Absent, JNum(0), JNum(5), JStr(<<>>), JStr(in_time_blank),
      JStr(in_time_clean), JStr(in_time_messy), JStr(in_time_date_only) }

ObjectPayloads ==
    [body : {"object"}, type : BOOLEAN, event_type : BOOLEAN,
     action : ActionInputs, patient_name : NameInputs,
     appointment_time : TimeInputs]

NonObjectPayloads ==
    [body : {"array", "string"}, type : BOOLEAN, event_type : BOOLEAN,
     action : {Absent}, patient_name : {Absent}, appointment_time : {Absent}]
    \cup
    [body : {"malformed", "falsy", "number"}, type : {FALSE}, event_type : {FALSE},
     action : {Absent}, patient_name : {Absent}, appointment_time : {Absent}]

Payloads ==
    ObjectPayloads \cup NonObjectPayloads

\* the dict {}
EmptyObject ==
    [body |-> "object", type |-> FALSE, event_type |-> FALSE,
     action |-> Absent, patient_name |-> Absent, appointment_time |-> Absent]

NoRequest ==
    [body |-> "none", type |-> FALSE, event_type |-> FALSE,
     action |-> Absent, patient_name |-> Absent, appointment_time |-> Absent]

NoResponse ==
    [code |-> 0, body |-> [status |-> "none"]]

-----------------------------------------------------------------------------
(* Responses.                                                              *)

\* jsonify(body): transport status 200
jsonify(body) ==
    [code |-> 200, body |-> body]

\* A plausible slip: the fault is reported with the default transport status.
InternalServerError_200 ==
    [code |-> 200,
     body |-> [status |-> "error", message |-> m_internal_server_error]]

\* the except branch: jsonify({...}), 500
InternalServerError ==
    [code |-> 500,
     body |-> [status |-> "error", message |-> m_internal_server_error]]

\* what a branch of the handler ends in: the registry it leaves, and either
\* the response it returns or the exception it raises
Return(a, response) ==
    [appointments |-> a, raised |-> FALSE, response |-> response]

Raise(a) ==
    [appointments |-> a, raised |-> TRUE, response |-> NoResponse]

-----------------------------------------------------------------------------
(* The branches of handle_webhook_request.                                 *)

\* A plausible slip: the ping test requires both fields.
is_validation_ping_both(data) ==
    data.type /\ data.event_type

\* 'type' in data or 'event_type' in data
is_validation_ping(data) ==
    data.type \/ data.event_type

validation_ack ==
    jsonify([status |-> "received", message |-> m_telnyx_received])

\* action == 'lookup_appointment'
lookup_appointment(a, patient_name) ==
    IF patient_name \in DOMAIN a
    THEN LET apt == a[patient_name] IN
         Return(a, jsonify(
            [status |-> "success",
             message |-> m_found_for \o title(patient_name),
             appointment |->
                [date |-> apt.date, time |-> apt.time,
                 doctor |-> apt.doctor, status |-> apt.status]]))
    ELSE Return(a, jsonify(
            [status |-> "not_found",
             message |-> m_no_appointment_for \o title(patient_name)]))

\* the slice lst[:n]
first_n(lst, n) ==
    SubSeq(lst, 1, IF Len(lst) < n THEN Len(lst) ELSE n)

\* A plausible slip: the slice is taken from the second entry on.
check_availability_shifted(a, slots) ==
    Return(a, jsonify(
        [status |-> "success",
         available_slots |-> SubSeq(slots, 2, 4),
         message |-> m_available_times]))

\* action == 'check_availability'
check_availability(a, slots) ==
    Return(a, jsonify(
        [status |-> "success",
         available_slots |-> first_n(slots, 3),
         message |-> m_available_times]))

\* A plausible slip: only a scheduled appointment can be confirmed.
confirm_appointment_guarded(a, patient_name) ==
    IF patient_name \in DOMAIN a /\ a[patient_name].status = "scheduled"
    THEN Return([a EXCEPT ![patient_name].status = "confirmed"],
                jsonify([status |-> "success",
                         message |-> m_confirmed_for \o title(patient_name)]))
    ELSE Return(a, jsonify([status |-> "error", message |-> m_not_found]))

\* action == 'confirm_appointment'
confirm_appointment(a, patient_name) ==
    IF patient_name \in DOMAIN a
    THEN Return([a EXCEPT ![patient_name].status = "confirmed"],
                jsonify([status |-> "success",
                         message |-> m_confirmed_for \o title(patient_name)]))
    ELSE Return(a, jsonify([status |-> "error", message |-> m_not_found]))

\* A plausible slip: cancelling removes the record.
cancel_appointment_delete(a, patient_name) ==
    IF patient_name \in DOMAIN a
    THEN Return([k \in DOMAIN a \ {patient_name} |-> a[k]],
                jsonify([status |-> "success",
                         message |-> m_cancelled_for \o title(patient_name)]))
    ELSE Return(a, jsonify([status |-> "error", message |-> m_not_found]))

\* action == 'cancel_appointment'
cancel_appointment(a, patient_name) ==
    IF patient_name \in DOMAIN a
    THEN Return([a EXCEPT ![patient_name].status = "cancelled"],
                jsonify([status |-> "success",
                         message |-> m_cancelled_for \o title(patient_name)]))
    ELSE Return(a, jsonify([status |-> "error", message |-> m_not_found]))

\* A plausible slip: only the presence of appointment_time is tested.
reschedule_check_time_only(a, patient_name, new_time) ==
    truthy(new_time)

\* the test `patient_name in appointments and new_time`
reschedule_check(a, patient_name, new_time) ==
    patient_name \in DOMAIN a /\ truthy(new_time)

\* A plausible slip: the date is cleared before the new one is parsed.
store_date_eager(a, patient_name, new_time) ==
    IF ~is_str(new_time) \/ split(new_time.s) = <<>>
    THEN Raise([a EXCEPT ![patient_name].date = <<>>])
    ELSE Return([a EXCEPT ![patient_name].date = split(new_time.s)[1]], NoResponse)

\* A plausible slip: the whole string is stored as the date.
store_date_whole(a, patient_name, new_time) ==
    IF ~is_str(new_time) \/ split(new_time.s) = <<>>
    THEN Raise(a)
    ELSE Return([a EXCEPT ![patient_name].date = new_time.s], NoResponse)

\* appointments[patient_name]["date"] = new_time.split()[0]
\* The right-hand side is evaluated first: a value without .split()
\* (AttributeError) or without a token (IndexError) raises before the store.
store_date(a, patient_name, new_time) ==
    IF ~is_str(new_time) \/ split(new_time.s) = <<>>
    THEN Raise(a)
    ELSE Return([a EXCEPT ![patient_name].date = split(new_time.s)[1]], NoResponse)

\* appointments[patient_name]["time"] = " ".join(new_time.split()[1:])
store_time(a, patient_name, new_time) ==
    Return([a EXCEPT ![patient_name].time = join(<<" ">>, Tail(split(new_time.s)))],
           NoResponse)

reschedule_success(patient_name, new_time) ==
    jsonify([status |-> "success",
             message |-> m_rescheduled_for \o title(patient_name)
                           \o m_to \o new_time.s])

reschedule_error ==
    jsonify([status |-> "error", message |-> m_could_not_reschedule])

\* action == 'reschedule_appointment'
reschedule_appointment(a, patient_name, new_time) ==
    IF reschedule_check(a, patient_name, new_time)
    THEN LET d == store_date(a, patient_name, new_time) IN
         IF d.raised THEN d
         ELSE LET t == store_time(d.appointments, patient_name, new_time) IN
              Return(t.appointments, reschedule_success(patient_name, new_time))
    ELSE Return(a, reschedule_error)

\* the final else
unknown_action(a, action) ==
    Return(a, jsonify([status |-> "error", message |-> m_unknown_action \o action]))

-----------------------------------------------------------------------------
(* handle_webhook_request.                                                 *)

\* request.get_json() or {}: a body that is no JSON raises, a falsy value is
\* replaced by the empty dict
get_json_or_empty(p) ==
    IF p.body = "malformed" THEN [raised |-> TRUE, data |-> p]
    ELSE IF p.body = "falsy" THEN [raised |-> FALSE, data |-> EmptyObject]
    ELSE [raised |-> FALSE, data |-> p]

\* data.get('action', '') and data.get('patient_name', '')
action_field(data) ==
    dict_get(data.action, JStr(<<>>))

patient_name_field(data) ==
    dict_get(data.patient_name, JStr(<<>>))

\* data.get('appointment_time'): None when absent
appointment_time_field(data) ==
    dict_get(data.appointment_time, JNull)

\* the if/elif chain on the case-folded action
dispatch(a, slots, action, patient_name, data) ==
    CASE action = a_lookup_appointment -> lookup_appointment(a, patient_name)
      [] action = a_check_availability -> check_availability(a, slots)
      [] action = a_confirm_appointment -> confirm_appointment(a, patient_name)
      [] action = a_cancel_appointment -> cancel_appointment(a, patient_name)
      [] action = a_reschedule_appointment ->
            reschedule_appointment(a, patient_name, appointment_time_field(data))
      [] OTHER -> unknown_action(a, action)

\* the body of the try block: the registry it leaves and the response it
\* returns, or the exception it raises
try_body(a, slots, p) ==
    LET j == get_json_or_empty(p) IN
    IF j.raised THEN Raise(a)
    ELSE LET data == j.data IN
         \* 'type' in data raises TypeError on a number
         IF data.body = "number" THEN Raise(a)
         ELSE IF is_validation_ping(data) THEN Return(a, validation_ack)
         \* an array and a string have no .get
         ELSE IF data.body # "object" THEN Raise(a)
         \* .lower() of a value that is no str raises AttributeError
         ELSE IF ~is_str(action_field(data)) THEN Raise(a)
         ELSE IF ~is_str(patient_name_field(data)) THEN Raise(a)
         ELSE dispatch(a, slots, lower(action_field(data).s),
                       lower(patient_name_field(data).s), data)

\* try: ... except Exception: return jsonify({...}), 500
handle_webhook_request(a, slots, p) ==
    LET out == try_body(a, slots, p) IN
    IF out.raised
    THEN Return(out.appointments, InternalServerError)
    ELSE out

-----------------------------------------------------------------------------
(* Spec: requests served one at a time.                                    *)

Threads ==
    {1, 2}

NoStatusAction ==
    [k \in DOMAIN InitialAppointments |-> "none"]

IdleThreads ==
    [t \in Threads |-> "idle"]

NoThreadRequest ==
    [t \in Threads |-> [patient_name |-> <<>>, new_time |-> Absent]]

NoThreadResponse ==
    [t \in Threads |-> NoResponse]

Init ==
    /\ appointments = InitialAppointments
    /\ available_slots = InitialSlots
    /\ pc = "idle"
    /\ req = NoRequest
    /\ resp = NoResponse
    /\ before = InitialAppointments
    /\ lastStatusAction = NoStatusAction
    /\ tpc = IdleThreads
    /\ treq = NoThreadRequest
    /\ tresp = NoThreadResponse

\* the request reaches the branch of the chain that `tag` selects: a JSON
\* object (or a falsy body, read as {}) without type and event_type whose
\* action and patient_name, where present, are strings
Dispatches(p, tag) ==
    /\ p.body \in {"object", "falsy"}
    /\ ~p.type /\ ~p.event_type
    /\ is_str(action_field(p))
    /\ is_str(patient_name_field(p))
    /\ lower(action_field(p).s) = tag

\* the registry key the request names
RequestKey(p) ==
    lower(patient_name_field(p).s)

\* lastStatusAction after request p is served: p is recorded under its key
\* when it is a confirm_appointment or a cancel_appointment for that key
served_status_action(last, p) ==
    IF Dispatches(p, a_confirm_appointment) /\ RequestKey(p) \in DOMAIN last
    THEN [last EXCEPT ![RequestKey(p)] = "confirm_appointment"]
    ELSE IF Dispatches(p, a_cancel_appointment) /\ RequestKey(p) \in DOMAIN last
    THEN [last EXCEPT ![RequestKey(p)] = "cancel_appointment"]
    ELSE last

\* POST / and POST /webhook: the request reaches handle_webhook_request
Receive(p) ==
    /\ pc = "idle"
    /\ pc' = "received"
    /\ req' = p
    /\ UNCHANGED <<appointments, available_slots, resp, before, lastStatusAction,
                   tpc, treq, tresp>>

\* one run of handle_webhook_request
HandleWebhookRequest ==
    /\ pc = "received"
    /\ LET out == handle_webhook_request(appointments, available_slots, req) IN
       /\ appointments' = out.appointments
       /\ resp' = out.response
    /\ before' = appointments
    /\ lastStatusAction' = served_status_action(lastStatusAction, req)
    /\ pc' = "done"
    /\ UNCHANGED <<available_slots, req, tpc, treq, tresp>>

\* after_request: the response leaves
AfterRequest ==
    /\ pc = "done"
    /\ pc' = "idle"
    /\ req' = NoRequest
    /\ resp' = NoResponse
    /\ before' = appointments
    /\ UNCHANGED <<appointments, available_slots, lastStatusAction, tpc, treq, tresp>>

Next ==
    \/ \E p \in Payloads : Receive(p)
    \/ HandleWebhookRequest
    \/ AfterRequest

Spec ==
    Init /\ [][Next]_vars

-----------------------------------------------------------------------------
(* SpecRace: two reschedule_appointment requests for one key, each in its  *)
(* own thread, one statement of the branch per step.  A thread starts at   *)
(* the test of the branch with its locals patient_name (case-folded) and   *)
(* new_time set.                                                           *)

RaceTimes ==
    { dict_get(v, JNull) : v \in TimeInputs }

RaceRequests ==
    { r \in [Threads -> [patient_name : DOMAIN InitialAppointments,
                         new_time : RaceTimes]] :
        r[1].patient_name = r[2].patient_name }

InitRace ==
    /\ appointments = InitialAppointments
    /\ available_slots = InitialSlots
    /\ pc = "idle"
    /\ req = NoRequest
    /\ resp = NoResponse
    /\ before = InitialAppointments
    /\ lastStatusAction = NoStatusAction
    /\ tpc = [t \in Threads |-> "check"]
    /\ treq \in RaceRequests
    /\ tresp = NoThreadResponse

\* if patient_name in appointments and new_time: ... else: return error
RescheduleCheck(t) ==
    /\ tpc[t] = "check"
    /\ IF reschedule_check(appointments, treq[t].patient_name, treq[t].new_time)
       THEN /\ tpc' = [tpc EXCEPT ![t] = "store_date"]
            /\ tresp' = tresp
       ELSE /\ tpc' = [tpc EXCEPT ![t] = "done"]
            /\ tresp' = [tresp EXCEPT ![t] = reschedule_error]
    /\ UNCHANGED <<appointments, available_slots, pc, req, resp, before,
                   lastStatusAction, treq>>

\* the statement that stores the date; an exception ends the request in the
\* except branch
RescheduleStoreDate(t) ==
    /\ tpc[t] = "store_date"
    /\ LET d == store_date(appointments, treq[t].patient_name, treq[t].new_time) IN
       /\ appointments' = d.appointments
       /\ IF d.raised
          THEN /\ tpc' = [tpc EXCEPT ![t] = "done"]
               /\ tresp' = [tresp EXCEPT ![t] = InternalServerError]
          ELSE /\ tpc' = [tpc EXCEPT ![t] = "store_time"]
               /\ tresp' = tresp
    /\ UNCHANGED <<available_slots, pc, req, resp, before, lastStatusAction, treq>>

\* the statement that stores the time
RescheduleStoreTime(t) ==
    /\ tpc[t] = "store_time"
    /\ appointments' =
          store_time(appointments, treq[t].patient_name, treq[t].new_time).appointments
    /\ tpc' = [tpc EXCEPT ![t] = "return"]
    /\ UNCHANGED <<available_slots, pc, req, resp, before, lastStatusAction,
                   treq, tresp>>

\* return jsonify({"status": "success", ...})
RescheduleReturn(t) ==
    /\ tpc[t] = "return"
    /\ tresp' = [tresp EXCEPT ![t] =
                    reschedule_success(treq[t].patient_name, treq[t].new_time)]
    /\ tpc' = [tpc EXCEPT ![t] = "done"]
    /\ UNCHANGED <<appointments, available_slots, pc, req, resp, before,
                   lastStatusAction, treq>>

NextRace ==
    \E t \in Threads :
        \/ RescheduleCheck(t)
        \/ RescheduleStoreDate(t)
        \/ RescheduleStoreTime(t)
        \/ RescheduleReturn(t)

SpecRace ==
    InitRace /\ [][NextRace]_vars

-----------------------------------------------------------------------------
(* Properties.  In Spec a state with pc = "done" holds one served request: *)
(* req, its response resp, the registry before it and appointments after.  *)

Served ==
    pc = "done"

\* the case-folded action of a request whose action is a string or absent
RequestAction(p) ==
    lower(action_field(p).s)

ActionTags ==
    {a_lookup_appointment, a_check_availability, a_confirm_appointment,
     a_cancel_appointment, a_reschedule_appointment}

\* appointment_time is absent (or null) or the empty string
TimeMissing(v) ==
    v.t \in {"absent", "null"} \/ v = JStr(<<>>)

\* the date and time an appointment_time of the requests stands for
ParsedDate(v) ==
    IF v.s = in_time_date_only THEN d_2025_08_03 ELSE d_2025_08_02

ParsedTime(v) ==
    IF v.s = in_time_date_only THEN <<>> ELSE t_9_00_AM

\* appointment_time is a string with at least one token
Parses(v) ==
    is_str(v) /\ v.s \in {in_time_clean, in_time_messy, in_time_date_only}

FirstThreeSlots ==
    <<"2025-07-29 2:00 PM", "2025-07-30 10:00 AM", "2025-07-30 4:00 PM">>

InternalErrorBody ==
    [status |-> "error", message |-> m_internal_server_error]

\* C1: a lookup_appointment whose case-folded patient_name is a key of the
\* registry returns success with the record stored under that key, in any
\* letter-casing of the name and after any sequence of requests; for a
\* name that is no key it returns not_found.
C1_LookupReturnsStoredRecord ==
    (Served /\ Dispatches(req, a_lookup_appointment)) =>
        /\ resp.code = 200
        /\ IF RequestKey(req) \in DOMAIN appointments
           THEN /\ resp.body.status = "success"
                /\ resp.body.appointment = appointments[RequestKey(req)]
           ELSE resp.body.status = "not_found"
        /\ (req.patient_name = JStr(in_JOHN_SMITH)) =>
              /\ resp.body.status = "success"
              /\ resp.body.appointment = appointments[k_john_smith]
        /\ (req.patient_name \in {JStr(in_bob), Absent}) =>
              resp.body.status = "not_found"

C1_Witness ==
    /\ Served
    /\ Dispatches(req, a_lookup_appointment)
    /\ req.patient_name = JStr(in_JOHN_SMITH)
    /\ appointments[k_john_smith].status = "cancelled"
    /\ appointments[k_john_smith].date = d_2025_08_02
    /\ resp.body.status = "success"
    /\ resp.body.appointment.status = "cancelled"
    /\ resp.body.appointment.date = d_2025_08_02

\* C2: for every existing key and every non-empty appointment_time string,
\* reschedule_appointment returns success, stores the first token as the
\* date and the other tokens joined by single spaces as the time, leaves
\* doctor and status alone, and echoes the raw appointment_time.
C2_RescheduleEveryNonEmptyString ==
    (/\ Served
     /\ Dispatches(req, a_reschedule_appointment)
     /\ RequestKey(req) \in DOMAIN before
     /\ is_str(req.appointment_time)
     /\ req.appointment_time.s # <<>>) =>
        LET k == RequestKey(req)
            s == req.appointment_time.s
        IN  /\ resp.code = 200
            /\ resp.body.status = "success"
            /\ split(s) # <<>>
            /\ appointments[k].date = split(s)[1]
            /\ appointments[k].time = join(<<" ">>, Tail(split(s)))
            /\ appointments[k].doctor = before[k].doctor
            /\ appointments[k].status = before[k].status
            /\ resp.body.message = m_rescheduled_for \o title(k) \o m_to \o s

\* C3: confirm_appointment and cancel_appointment on an existing key return
\* success whatever the record's status, and the next lookup_appointment of
\* that key shows "confirmed", respectively "cancelled"; on a key that does
\* not exist both return error "Appointment not found".
C3_ConfirmCancelThenLookup ==
    Served =>
        /\ \A tag \in {a_confirm_appointment, a_cancel_appointment} :
              Dispatches(req, tag) =>
                 /\ resp.code = 200
                 /\ IF RequestKey(req) \in DOMAIN before
                    THEN resp.body.status = "success"
                    ELSE resp.body = [status |-> "error", message |-> m_not_found]
        /\ (/\ Dispatches(req, a_lookup_appointment)
            /\ RequestKey(req) \in DOMAIN lastStatusAction
            /\ lastStatusAction[RequestKey(req)] # "none") =>
               /\ resp.body.status = "success"
               /\ resp.body.appointment.status =
                     (IF lastStatusAction[RequestKey(req)] = "confirm_appointment"
                      THEN "confirmed" ELSE "cancelled")

C3_Witness ==
    /\ Served
    /\ Dispatches(req, a_lookup_appointment)
    /\ req.patient_name = JStr(in_Jane_Doe)
    /\ lastStatusAction[k_jane_doe] = "confirm_appointment"
    /\ lastStatusAction[k_john_smith] = "cancel_appointment"
    /\ resp.body.appointment.status = "confirmed"

\* C4: a reschedule_appointment whose appointment_time is absent or empty,
\* or whose patient_name is no key, returns error "Could not reschedule
\* appointment" with transport status 200 and changes no record.
C4_RescheduleRejected ==
    (/\ Served
     /\ Dispatches(req, a_reschedule_appointment)
     /\ \/ TimeMissing(req.appointment_time)
        \/ RequestKey(req) \notin DOMAIN before) =>
        /\ resp = [code |-> 200,
                   body |-> [status |-> "error", message |-> m_could_not_reschedule]]
        /\ appointments = before

C4_Witness ==
    /\ Served
    /\ Dispatches(req, a_reschedule_appointment)
    /\ req.patient_name = JStr(in_bob)
    /\ req.appointment_time = JStr(in_time_clean)
    /\ resp.body.message = m_could_not_reschedule
    /\ appointments = before

\* C5: a payload that contains type or event_type is answered with the
\* acknowledgment {status: "received"} and leaves the registry unchanged,
\* whatever action, patient_name and appointment_time it carries.
C5_ValidationPingAcknowledged ==
    (Served /\ req.body = "object" /\ (req.type \/ req.event_type)) =>
        /\ resp.code = 200
        /\ resp.body = [status |-> "received", message |-> m_telnyx_received]
        /\ appointments = before

C5_Witness ==
    /\ Served
    /\ req.body = "object"
    /\ req.event_type /\ ~req.type
    /\ req.action = JStr(a_cancel_appointment)
    /\ req.patient_name = JStr(in_JOHN_SMITH)
    /\ before[k_john_smith].status = "confirmed"
    /\ appointments[k_john_smith].status = "confirmed"
    /\ resp.body.status = "received"

\* C6: only confirm_appointment, cancel_appointment and
\* reschedule_appointment change the registry; its key set stays the
\* initial key set and every key is in lowercase.
C6_RegistryFrame ==
    /\ DOMAIN appointments = {k_john_smith, k_jane_doe}
    /\ \A k \in DOMAIN appointments : \A i \in 1..Len(k) : ~isupper(k[i])
    /\ ~Served => appointments = before
    /\ (Served /\ appointments # before) =>
          \E tag \in {a_confirm_appointment, a_cancel_appointment,
                      a_reschedule_appointment} : Dispatches(req, tag)

C6_Witness ==
    /\ Served
    /\ Dispatches(req, a_cancel_appointment)
    /\ RequestKey(req) = k_john_smith
    /\ before[k_john_smith].status = "confirmed"
    /\ appointments[k_john_smith].status = "cancelled"
    /\ DOMAIN appointments = {k_john_smith, k_jane_doe}

\* the request faults: no JSON, 'type' in a number, .get on an array or a
\* string, .lower() on a value that is no string, .split() on a value that
\* is no string, or no token to take as the date
UnexpectedFault(p, a) ==
    \/ p.body \in {"malformed", "number"}
    \/ p.body \in {"array", "string"} /\ ~p.type /\ ~p.event_type
    \/ /\ p.body = "object" /\ ~p.type /\ ~p.event_type
       /\ ~is_str(action_field(p)) \/ ~is_str(patient_name_field(p))
    \/ /\ Dispatches(p, a_reschedule_appointment)
       /\ RequestKey(p) \in DOMAIN a
       /\ truthy(appointment_time_field(p))
       /\ ~Parses(appointment_time_field(p))

\* the request is a business error: a missing record, a missing reschedule
\* time, an unknown action
BusinessError(p, a) ==
    \/ /\ \E tag \in {a_confirm_appointment, a_cancel_appointment,
                      a_reschedule_appointment} : Dispatches(p, tag)
       /\ RequestKey(p) \notin DOMAIN a
    \/ /\ Dispatches(p, a_reschedule_appointment)
       /\ TimeMissing(p.appointment_time)
    \/ /\ Dispatches(p, RequestAction(p))
       /\ RequestAction(p) \notin ActionTags

\* C7: every request ends in one structured response; a business error has
\* status "error" with transport status 200, an unknown action is answered
\* "Unknown action: <case-folded action>", and exactly the unexpected faults
\* are answered "Internal server error" with transport status 500.
C7_StructuredResponses ==
    Served =>
        /\ resp.code \in {200, 500}
        /\ {"status", "message"} \subseteq DOMAIN resp.body
        /\ resp.code = 500 <=> UnexpectedFault(req, before)
        /\ resp.code = 500 <=> resp.body = InternalErrorBody
        /\ BusinessError(req, before) =>
              resp.code = 200 /\ resp.body.status = "error"
        /\ (Dispatches(req, RequestAction(req)) /\ RequestAction(req) \notin ActionTags) =>
              resp.body = [status |-> "error",
                           message |-> m_unknown_action \o RequestAction(req)]
        /\ (Dispatches(req, RequestAction(req)) /\ req.action = JStr(in_Frobnicate)) =>
              resp.body.message = m_unknown_action \o in_frobnicate
        /\ (req.body = "falsy" \/ Dispatches(req, <<>>)) =>
              resp.body.message = m_unknown_action

C7_Witness ==
    /\ Served
    /\ Dispatches(req, a_reschedule_appointment)
    /\ RequestKey(req) = k_jane_doe
    /\ req.appointment_time = JNum(5)
    /\ resp = [code |-> 500, body |-> InternalErrorBody]

\* C8 as stated: check_availability returns the first 3 slots whatever else
\* the payload holds.
C8_CheckAvailabilityWhateverThePayload ==
    (/\ Served
     /\ req.body = "object" /\ ~req.type /\ ~req.event_type
     /\ is_str(req.action)
     /\ lower(req.action.s) = a_check_availability) =>
        /\ resp.code = 200
        /\ resp.body.status = "success"
        /\ resp.body.available_slots = FirstThreeSlots

\* C8, amended: a payload without type and event_type whose action
\* case-folds to check_availability and whose patient_name is absent or a
\* string is answered success with the first 3 entries of available_slots,
\* in order, whatever its patient_name and appointment_time are and
\* whatever was served before; and no request changes available_slots.
C8_CheckAvailabilityFirstThree ==
    /\ available_slots = InitialSlots
    /\ (Served /\ Dispatches(req, a_check_availability)) =>
          /\ resp.code = 200
          /\ resp.body.status = "success"
          /\ resp.body.available_slots = FirstThreeSlots
          /\ appointments = before

C8_Witness ==
    /\ Served
    /\ Dispatches(req, a_check_availability)
    /\ req.patient_name = JStr(in_bob)
    /\ req.appointment_time = JNum(5)
    /\ appointments[k_john_smith].status = "cancelled"
    /\ appointments[k_jane_doe].date = d_2025_08_03
    /\ resp.body.available_slots = FirstThreeSlots

RaceDone ==
    \A t \in Threads : tpc[t] = "done"

RaceKey ==
    treq[1].patient_name

\* C9 as stated: both requests return success and the record ends with the
\* parsed (date, time) pair of one of them.
C9_RaceLeavesOnePair ==
    (RaceDone /\ \A t \in Threads : Parses(treq[t].new_time)) =>
        /\ \A t \in Threads : tresp[t].body.status = "success"
        /\ \E t \in Threads :
              /\ appointments[RaceKey].date = ParsedDate(treq[t].new_time)
              /\ appointments[RaceKey].time = ParsedTime(treq[t].new_time)

\* C9, amended: of two concurrent reschedule_appointment requests for one
\* existing key, each whose appointment_time is a string with a token
\* returns success (one without a truthy appointment_time returns the
\* business error, any other faults), and once both have finished the
\* record's date is the parsed date of one of the successful requests and
\* its time the parsed time of one of them, not necessarily the same one;
\* with no successful request the record is as it was.
C9_RaceLeavesOneDateAndOneTime ==
    RaceDone =>
        LET ok == {t \in Threads : Parses(treq[t].new_time)} IN
        /\ \A t \in Threads :
              /\ tresp[t].code = 200 /\ tresp[t].body.status = "success" <=> t \in ok
              /\ t \notin ok =>
                    IF truthy(treq[t].new_time)
                    THEN tresp[t] = [code |-> 500, body |-> InternalErrorBody]
                    ELSE tresp[t].body.message = m_could_not_reschedule
        /\ IF ok = {}
           THEN appointments = InitialAppointments
           ELSE /\ \E t \in ok :
                      appointments[RaceKey].date = ParsedDate(treq[t].new_time)
                /\ \E t \in ok :
                      appointments[RaceKey].time = ParsedTime(treq[t].new_time)
        /\ \A k \in DOMAIN appointments :
              /\ appointments[k].status = InitialAppointments[k].status
              /\ appointments[k].doctor = InitialAppointments[k].doctor
              /\ k # RaceKey => appointments[k] = InitialAppointments[k]

\* both requests succeeded and the record holds the date of one and the
\* time of the other
C9_Witness ==
    /\ RaceDone
    /\ treq[1].new_time = JStr(in_time_clean)
    /\ treq[2].new_time = JStr(in_time_date_only)
    /\ \A t \in Threads : tresp[t].body.status = "success"
    /\ appointments[RaceKey].date = d_2025_08_03
    /\ appointments[RaceKey].time = t_9_00_AM

\* C10: a request answered with status "error", business error or internal
\* fault, leaves the registry as it found it; a reschedule_appointment that
\* faults on its appointment_time has stored neither date nor time.
C10_ErrorLeavesRegistry ==
    (Served /\ resp.body.status = "error") => appointments = before

C10_Witness ==
    /\ Served
    /\ Dispatches(req, a_reschedule_appointment)
    /\ RequestKey(req) = k_john_smith
    /\ req.appointment_time = JStr(in_time_blank)
    /\ resp = [code |-> 500, body |-> InternalErrorBody]
    /\ appointments[k_john_smith] = before[k_john_smith]
    /\ before[k_john_smith].date = d_2025_08_02

====
